---- MODULE Spec2Model ----
(***************************************************************************)
(* Model of generate_volume_data.py: the chunked log scan of one pool      *)
(* (get_pool_events), the volume fold (calculate_volumes), the two         *)
(* distributions (distribute_by_collection, distribute_by_total_volume)    *)
(* and the ranking done in main.                                           *)
(*                                                                         *)
(* Python ints are unbounded and Python floats are IEEE binary64, so both  *)
(* are modelled exactly: a natural number is the sequence of its digits   *)
(* in base 2^12, least significant first, and a float is sign, 53-bit      *)
(* mantissa and exponent with round-half-to-even after every operation.    *)
(***************************************************************************)
EXTENDS Integers, Sequences, FiniteSets, TLC

VARIABLES
    pc,             \* position of the running function
    from_block,     \* get_pool_events: argument
    to_block,       \* get_pool_events: argument, None until resolved
    current_block,  \* get_pool_events: local
    end_block,      \* get_pool_events: local
    logs,           \* get_pool_events: the list get_logs returned
    log_pos,        \* get_pool_events: position of the for loop in logs
    events,         \* get_pool_events: the list being built and returned
    chain,          \* transport: the pool's logs on the chain
    latest,         \* transport: the chain's latest block number
    filter_params,  \* the last log query issued
    attempt,        \* outcome of the last attempt: "none", "ok", "failed"
    processed,      \* the sub-ranges reported as processed (line 71)
    fetch_errors,   \* number of transport failures so far
    all_events,     \* main: the events of all pools
    shuffled,       \* a permutation of all_events
    address_data,   \* main: result of calculate_volumes(all_events)
    shuffled_data,  \* result of calculate_volumes(shuffled)
    collection_distribution, \* main: result of distribute_by_collection
    volume_distribution,     \* main: result of distribute_by_total_volume
    sorted_collection,       \* main: ranked list, by-collection method
    sorted_volume,           \* main: ranked list, by-total-volume method
    sum_impl        \* which builtin sum() the interpreter provides

vars == <<pc, from_block, to_block, current_block, end_block, logs, log_pos,
          events, chain, latest, filter_params, attempt, processed,
          fetch_errors, all_events, shuffled, address_data, shuffled_data,
          collection_distribution, volume_distribution, sorted_collection,
          sorted_volume, sum_impl>>

scan_vars == <<from_block, to_block, current_block, end_block, logs, log_pos,
               events, chain, latest, filter_params, attempt, processed,
               fetch_errors>>

main_vars == <<all_events, shuffled, address_data, shuffled_data,
               collection_distribution, volume_distribution,
               sorted_collection, sorted_volume, sum_impl>>

\* Python's None, apart from every block number
None == -2

Min(a, b) == IF a <= b THEN a ELSE b
Max(a, b) == IF a >= b THEN a ELSE b

(***************************************************************************)
(* Unbounded naturals (Python int >= 0): the digits in base 2^LimbBits,    *)
(* least significant first, no leading zero digit; <<>> is 0.              *)
(***************************************************************************)
LimbBits == 12

Base == 2^LimbBits

\* a without its leading zero digits
Norm(a) ==
    IF \A i \in 1..Len(a) : a[i] = 0 THEN <<>>
    ELSE SubSeq(a, 1, CHOOSE i \in 1..Len(a) :
                          a[i] # 0 /\ \A k \in (i + 1)..Len(a) : a[k] = 0)

Limb(a, i) == IF i >= 1 /\ i <= Len(a) THEN a[i] ELSE 0

\* the carry into digit i of a + b
CarryIn(a, b, i) ==
    IF \E j \in 1..(i - 1) :
          /\ Limb(a, j) + Limb(b, j) >= Base
          /\ \A k \in (j + 1)..(i - 1) : Limb(a, k) + Limb(b, k) = Base - 1
    THEN 1 ELSE 0

BAdd(a, b) ==
    Norm([i \in 1..(Max(Len(a), Len(b)) + 1) |->
             (Limb(a, i) + Limb(b, i) + CarryIn(a, b, i)) % Base])

\* the borrow out of digit i of a - b
BorrowIn(a, b, i) ==
    IF \E j \in 1..(i - 1) :
          /\ Limb(a, j) < Limb(b, j)
          /\ \A k \in (j + 1)..(i - 1) : Limb(a, k) = Limb(b, k)
    THEN 1 ELSE 0

\* a - b for a >= b
BSub(a, b) ==
    Norm([i \in 1..Len(a) |->
             (Limb(a, i) - Limb(b, i) - BorrowIn(a, b, i) + Base) % Base])

BLess(a, b) ==
    IF Len(a) # Len(b) THEN Len(a) < Len(b)
    ELSE \E i \in 1..Len(a) :
            a[i] < b[i] /\ \A k \in (i + 1)..Len(a) : a[k] = b[k]

\* a * k for 0 <= k < Base: the low and the high halves of the digit products
MulSmall(a, k) ==
    BAdd(Norm([i \in 1..Len(a) |-> (a[i] * k) % Base]),
         Norm([i \in 1..(Len(a) + 1) |->
                  IF i = 1 THEN 0 ELSE (a[i - 1] * k) \div Base]))

\* a * 2^n
BShl(a, n) ==
    LET q == n \div LimbBits
        s == n % LimbBits
    IN  Norm([i \in 1..(Len(a) + q + 1) |->
                 IF i <= q THEN 0
                 ELSE ((Limb(a, i - q) * 2^s) % Base)
                      + (Limb(a, i - q - 1) \div 2^(LimbBits - s))])

\* a \div 2^n
BShr(a, n) ==
    LET q == n \div LimbBits
        s == n % LimbBits
    IN  Norm([i \in 1..(Len(a) - q) |->
                 (Limb(a, i + q) \div 2^s)
                 + (Limb(a, i + q + 1) % 2^s) * 2^(LimbBits - s)])

\* number of binary digits of a
BitLen(a) ==
    IF a = <<>> THEN 0
    ELSE LimbBits * (Len(a) - 1)
         + (CHOOSE k \in 1..LimbBits : 2^(k - 1) <= a[Len(a)] /\ a[Len(a)] < 2^k)

\* binary digit i of a, the least significant being digit 1
BitAt(a, i) ==
    (Limb(a, ((i - 1) \div LimbBits) + 1) \div 2^((i - 1) % LimbBits)) % 2

RECURSIVE MulFrom(_, _, _)
MulFrom(a, b, i) ==
    IF i > Len(b) THEN <<>>
    ELSE BAdd([j \in 1..(i - 1) |-> 0] \o MulSmall(a, b[i]), MulFrom(a, b, i + 1))

BMul(a, b) == IF a = <<>> \/ b = <<>> THEN <<>> ELSE Norm(MulFrom(a, b, 1))

\* the digit d with d * b <= r < (d + 1) * b, for r < b * Base and b with
\* its leading digit at least Base / 2: at most 2 below the estimate made
\* from the leading digits
QuotientDigit(r, b) ==
    LET n  == Len(b)
        qh == Min(Base - 1, (Limb(r, n + 1) * Base + Limb(r, n)) \div b[n])
    IN  CHOOSE d \in Max(0, qh - 2)..qh :
            /\ ~BLess(r, MulSmall(b, d))
            /\ BLess(r, BAdd(MulSmall(b, d), b))

\* long division, most significant digit of a first: q holds the digits
\* of the quotient found so far, r the remainder of the digits above i
RECURSIVE DivFrom(_, _, _, _, _)
DivDigit(a, b, i, q, r2, d) ==
    IF d = 0 THEN DivFrom(a, b, i - 1, <<0>> \o q, r2)
    ELSE DivFrom(a, b, i - 1, <<d>> \o q, BSub(r2, MulSmall(b, d)))

DivFrom(a, b, i, q, r) ==
    IF i = 0 THEN [q |-> q, r |-> r]
    ELSE DivDigit(a, b, i, q, Norm(<<a[i]>> \o r),
                  QuotientDigit(Norm(<<a[i]>> \o r), b))

\* the result of the division of the operands shifted left by sh bits
Unshifted(dm, sh) == [q |-> Norm(dm.q), r |-> BShr(dm.r, sh)]

\* [q, r] with a = q * b + r and r < b, for b # 0
BDivMod(a, b) ==
    LET sh == LimbBits * Len(b) - BitLen(b)
        an == BShl(a, sh)
    IN  Unshifted(DivFrom(an, BShl(b, sh), Len(an), <<>>, <<>>), sh)

RECURSIVE NatBig(_)
NatBig(n) == IF n = 0 THEN <<>> ELSE <<n % Base>> \o NatBig(n \div Base)

RECURSIVE BigNat(_)
BigNat(a) == IF a = <<>> THEN 0 ELSE a[1] + Base * BigNat(Tail(a))

(***************************************************************************)
(* Strings are sequences of one-character strings.                         *)
(***************************************************************************)
HexChars == <<"0", "1", "2", "3", "4", "5", "6", "7",
              "8", "9", "a", "b", "c", "d", "e", "f">>

\* str.lower() on one character of the alphabet used here
LowerChar(c) ==
    CASE c = "A" -> "a" [] c = "B" -> "b" [] c = "C" -> "c"
      [] c = "D" -> "d" [] c = "E" -> "e" [] c = "F" -> "f"
      [] c = "X" -> "x" [] OTHER -> c

\* the string as it is
Unfolded(s) == [i \in 1..Len(s) |-> s[i]]

Lower(s) == [i \in 1..Len(s) |-> LowerChar(s[i])]

IsHexDigit(c) == \E v \in 1..16 : HexChars[v] = LowerChar(c)

HexVal(c) == (CHOOSE v \in 1..16 : HexChars[v] = LowerChar(c)) - 1

\* code point order of the characters used here: digits, upper case, lower case
CharRank(c) ==
    IF IsHexDigit(c) /\ LowerChar(c) = c THEN HexVal(c)
    ELSE IF IsHexDigit(c) THEN 20 + HexVal(c)
    ELSE IF c = "X" THEN 40
    ELSE IF c = "x" THEN 80
    ELSE 50 + HexVal(c)

\* Python's s[:n]
Prefix(s, n) == SubSeq(s, 1, Min(n, Len(s)))

\* the value of hex digits d (most significant first), three to a limb
DigitsBig(d) ==
    LET at(j) == IF j >= 1 THEN HexVal(d[j]) ELSE 0
    IN  [i \in 1..((Len(d) + 2) \div 3) |->
            at(Len(d) - 3 * i + 3) + 16 * at(Len(d) - 3 * i + 2)
            + 256 * at(Len(d) - 3 * i + 1)]

ValueError == "ValueError"

\* Python's int(s, 16) for a string without sign, blanks or underscores
PyIntBase16(s) ==
    LET d == IF Len(s) >= 2 /\ s[1] = "0" /\ LowerChar(s[2]) = "x"
             THEN SubSeq(s, 3, Len(s)) ELSE s
    IN  IF d = <<>> \/ \E i \in 1..Len(d) : ~IsHexDigit(d[i])
        THEN ValueError
        ELSE Norm(DigitsBig(d))

RECURSIVE HexDigitsOf(_)
HexDigitsOf(n) ==
    IF n < 16 THEN <<HexChars[n + 1]>>
    ELSE Append(HexDigitsOf(n \div 16), HexChars[(n % 16) + 1])

\* Python's hex(n) for n >= 0
PyHex(n) == <<"0", "x">> \o HexDigitsOf(n)

(***************************************************************************)
(* IEEE binary64 (Python float): value (-1)^s * m * 2^e, m of exactly      *)
(* MantissaBits bits, or m = <<>> for zero.  All values of the program     *)
(* stay far inside the normal range, so no overflow or subnormal case.     *)
(***************************************************************************)
MantissaBits == 53

FZero == [s |-> 0, m |-> <<>>, e |-> 0]

\* whether a binary digit of n below digit k is set
Sticky(n, k) == BShl(BShr(n, k - 1), k - 1) # n

\* q * 2^e with q of MantissaBits bits, or of one more after a carry
Renormalised(s, q, e) ==
    IF BitLen(q) > MantissaBits
    THEN [s |-> s, m |-> BShr(q, 1), e |-> e + 1]
    ELSE [s |-> s, m |-> q, e |-> e]

\* whether dropping the k lowest binary digits of n rounds up
RoundsUp(n, k) == BitAt(n, k) = 1 /\ (Sticky(n, k) \/ BitAt(n, k + 1) = 1)

\* n * 2^e for n of MantissaBits + k bits
RoundAt(s, n, e, k) ==
    IF k <= 0 THEN [s |-> s, m |-> BShl(n, -k), e |-> e + k]
    ELSE Renormalised(s, IF RoundsUp(n, k) THEN BAdd(BShr(n, k), <<1>>)
                         ELSE BShr(n, k), e + k)

\* round n * 2^e to the nearest float, ties to even
FRound(s, n, e) ==
    IF n = <<>> THEN FZero ELSE RoundAt(s, n, e, BitLen(n) - MantissaBits)

\* float(n) for a Python int n >= 0
IntToFloat(n) == FRound(0, n, 0)

FNeg(x) == IF x.m = <<>> THEN x ELSE [x EXCEPT !.s = 1 - x.s]

\* the two magnitudes over their common exponent
Aligned(x, y) ==
    LET emin == Min(x.e, y.e)
    IN  [a |-> BShl(x.m, x.e - emin), b |-> BShl(y.m, y.e - emin), e |-> emin]

\* the sum of the aligned magnitudes al of signs xs and ys
AddAligned(xs, ys, al) ==
    FRound(IF xs = ys \/ BLess(al.b, al.a) THEN xs ELSE ys,
           IF xs = ys THEN BAdd(al.a, al.b)
           ELSE IF BLess(al.b, al.a) THEN BSub(al.a, al.b)
           ELSE BSub(al.b, al.a),
           al.e)

FAdd(x, y) ==
    IF x.m = <<>> THEN y
    ELSE IF y.m = <<>> THEN x
    ELSE AddAligned(x.s, y.s, Aligned(x, y))

FSub(x, y) == FAdd(x, FNeg(y))

FMul(x, y) ==
    IF x.m = <<>> \/ y.m = <<>> THEN FZero
    ELSE FRound((x.s + y.s) % 2, BMul(x.m, y.m), x.e + y.e)

\* the quotient dm.q, the remainder kept as a sticky bit, rounded once
RoundQuotient(s, dm, e) ==
    FRound(s, IF dm.r = <<>> \/ dm.q[1] % 2 = 1 THEN dm.q
              ELSE [dm.q EXCEPT ![1] = @ + 1], e)

\* x / y for y # 0: the quotient to MantissaBits + 3 bits or more
FDiv(x, y) ==
    IF x.m = <<>> THEN FZero
    ELSE RoundQuotient((x.s + y.s) % 2,
                       BDivMod(BShl(x.m, MantissaBits + 3), y.m),
                       x.e - y.e - (MantissaBits + 3))

\* x < y
FLess(x, y) ==
    IF x.m = <<>> /\ y.m = <<>> THEN FALSE
    ELSE IF x.m = <<>> THEN y.s = 0
    ELSE IF y.m = <<>> THEN x.s = 1
    ELSE IF x.s # y.s THEN x.s = 1
    ELSE LET al == Aligned(x, y)
         IN  IF x.s = 0 THEN BLess(al.a, al.b) ELSE BLess(al.b, al.a)

\* fabs(x) >= fabs(y)
FAbsGeq(x, y) == ~FLess([x EXCEPT !.s = 0], [y EXCEPT !.s = 0])

FPositive(x) == x.m # <<>> /\ x.s = 0

(***************************************************************************)
(* Configuration (lines 12-26).                                            *)
(***************************************************************************)
TOTAL_BERA_TOKENS == 34000

POOLS ==
    [YEETARD   |-> "0xe9171252d2EEc5BA1eefB6e2FEf62BC32c061AFA",
     BULLA_1   |-> "0x9c32e283aad3cB32832096873aa94994B0d9386C",
     BULLA_2   |-> "0xaAf5DEFf621B743f25356F7692c171dFafaeF9dC",
     BULLA_3   |-> "0x6DC89967820563cE095696a915237128e146965E",
     BABY_BERA |-> "0x304F9c77C303Eb9445f81Ba6De3d0d516372Ea97"]

(***************************************************************************)
(* The chain as the transport shows it.  A log is                          *)
(* [blockNumber, logIndex, transactionHash, data]; data is the hex string  *)
(* of the payload, "0x" and two characters a byte.                         *)
(***************************************************************************)
MaxChunks == 2
MaxLogs == 2
MaxFetchErrors == 1
MaxScanEvents == 3

chunk_size == 5000

\* one 32-byte word holding the hex digits d
Word(d) == [i \in 1..(64 - Len(d)) |-> "0"] \o d

\* payload of SwapNFTOutPair: amountIn, then the offset of the id array
SwapData(amount) == <<"0", "x">> \o Word(amount) \o Word(<<"6", "0">>)

\* 10^17, 2 * 10^17 and 3 * 10^17 wei in hex
Wei1 == <<"1", "6", "3", "4", "5", "7", "8", "5", "d", "8", "a", "0", "0", "0", "0">>
Wei2 == <<"2", "c", "6", "8", "a", "f", "0", "b", "b", "1", "4", "0", "0", "0", "0">>
Wei3 == <<"4", "2", "9", "d", "0", "6", "9", "1", "8", "9", "e", "0", "0", "0", "0">>

\* a payload cut to 2 bytes, and an empty payload
ShortData == <<"0", "x", "0", "1", "6", "3">>
EmptyData == <<"0", "x">>

Payloads == {SwapData(Wei1), ShortData, EmptyData}

\* trader addresses as the node returns them (checksum case)
Trader1 == <<"0", "x", "A", "b">>
Trader2 == <<"0", "x", "a", "B">>
Trader3 == <<"0", "x", "1", "F">>

\* the sender of transaction h
TxFrom(h) == IF h % 2 = 0 THEN Trader1 ELSE Trader3

\* the block ranges a scan is started on: first block, number of blocks
FromBlocks == {0, 7}
Widths == {k * chunk_size + d : k \in 0..MaxChunks, d \in 0..(MaxChunks + 1)}

\* where the pool's logs lie, counted from the first block of the scan
LogOffsets == {0, chunk_size, chunk_size + 1}

\* the logs of the pool: ascending by block, one transaction a block
Chains(first) ==
    LET kinds == LogOffsets \X Payloads
        seqs  == UNION {[1..n -> kinds] : n \in 0..MaxLogs}
    IN  {[i \in 1..Len(c) |->
            [blockNumber     |-> first + c[i][1],
             logIndex        |-> i - 1,
             transactionHash |-> first + c[i][1] + 1,
             data            |-> c[i][2]]] :
         c \in {c \in seqs : \A i \in 1..(Len(c) - 1) : c[i][1] <= c[i + 1][1]}}

\* the node's reading of a hex quantity
Quantity(h) == BigNat(PyIntBase16(h))

\* eth_getLogs: the logs of the pool in [fromBlock, toBlock], both included
get_logs(params) ==
    SelectSeq(chain, LAMBDA l : /\ Quantity(params.fromBlock) <= l.blockNumber
                                /\ l.blockNumber <= Quantity(params.toBlock))

\* nothing aggregated, distributed or ranked yet
NothingComputed ==
    /\ address_data = <<>>
    /\ shuffled_data = <<>>
    /\ collection_distribution = <<>>
    /\ volume_distribution = <<>>
    /\ sorted_collection = <<>>
    /\ sorted_volume = <<>>

\* no scan under way
NoScan ==
    /\ from_block = 0
    /\ to_block = None
    /\ current_block = None
    /\ end_block = None
    /\ logs = <<>>
    /\ log_pos = 0
    /\ events = <<>>
    /\ chain = <<>>
    /\ latest = 0
    /\ filter_params = None
    /\ attempt = "none"
    /\ processed = <<>>
    /\ fetch_errors = 0

(***************************************************************************)
(* get_pool_events (lines 31-80), for the pool POOLS.YEETARD.              *)
(***************************************************************************)
pool_address == POOLS.YEETARD

ScanInit ==
    /\ pc = "start"
    /\ from_block \in FromBlocks
    /\ to_block \in {None} \cup {from_block - 1 + w : w \in Widths}
    /\ latest = IF to_block = None THEN from_block + chunk_size + 1 ELSE to_block
    /\ chain \in Chains(from_block)
    /\ current_block = None
    /\ end_block = None
    /\ logs = <<>>
    /\ log_pos = 0
    /\ events = <<>>
    /\ filter_params = None
    /\ attempt = "none"
    /\ processed = <<>>
    /\ fetch_errors = 0
    /\ all_events = <<>>
    /\ shuffled = <<>>
    /\ NothingComputed
    /\ sum_impl = "naive"

\* lines 33-40: to_block defaults to the latest block; the lookup is a
\* transport call made outside the try block
ResolveToBlock ==
    /\ pc = "start"
    /\ \/ /\ to_block # None
          /\ pc' = "while"
          /\ current_block' = from_block
          /\ UNCHANGED <<to_block, fetch_errors>>
       \/ /\ to_block = None
          /\ to_block' = latest
          /\ pc' = "while"
          /\ current_block' = from_block
          /\ UNCHANGED fetch_errors
       \/ /\ to_block = None
          /\ fetch_errors < MaxFetchErrors
          /\ fetch_errors' = fetch_errors + 1
          /\ pc' = "raised"
          /\ UNCHANGED <<to_block, current_block>>
    /\ UNCHANGED <<from_block, end_block, logs, log_pos, events, chain, latest,
                   filter_params, attempt, processed, main_vars>>

\* lines 42-43 and 80: the loop test; the end of the sub-range, or return
WhileTest ==
    /\ pc = "while"
    /\ IF current_block <= to_block
       THEN /\ end_block' = Min(current_block + chunk_size, to_block)
            /\ pc' = "try"
       ELSE /\ pc' = "done"
            /\ UNCHANGED end_block
    /\ UNCHANGED <<from_block, to_block, current_block, logs, log_pos, events,
                   chain, latest, filter_params, attempt, processed,
                   fetch_errors, main_vars>>

\* lines 46-53: the log query of the sub-range, answered or failing
GetLogs ==
    /\ pc = "try"
    /\ filter_params' = [fromBlock |-> PyHex(current_block),
                         toBlock   |-> PyHex(end_block),
                         address   |-> pool_address]
    /\ \/ /\ logs' = get_logs(filter_params')
          /\ log_pos' = 1
          /\ attempt' = "pending"
          /\ pc' = "for"
          /\ UNCHANGED fetch_errors
       \/ /\ fetch_errors < MaxFetchErrors
          /\ fetch_errors' = fetch_errors + 1
          /\ attempt' = "failed"
          /\ pc' = "except"
          /\ UNCHANGED <<logs, log_pos>>
    /\ UNCHANGED <<from_block, to_block, current_block, end_block, events,
                   chain, latest, processed, main_vars>>

\* line 57: the first 32 bytes of the payload as an integer
amount_in(log) == PyIntBase16(Prefix(log.data, 66))

\* lines 62-69
TradeRecord(log, tx) ==
    [pool         |-> pool_address,
     tx_hash      |-> PyHex(log.transactionHash),
     block_number |-> log.blockNumber,
     address      |-> tx.from,
     amount_in    |-> amount_in(log),
     log_index    |-> log.logIndex]

\* lines 55-69: one pass of the for loop: decode, look the transaction up,
\* append; a ValueError of int() or a failing lookup leaves the loop
ForBody ==
    /\ pc = "for"
    /\ log_pos <= Len(logs)
    /\ Len(events) < MaxScanEvents
    /\ LET log == logs[log_pos]
       IN  \/ /\ amount_in(log) = ValueError
              /\ attempt' = "failed"
              /\ pc' = "except"
              /\ UNCHANGED <<events, log_pos, fetch_errors>>
           \/ /\ amount_in(log) # ValueError
              /\ events' = Append(events,
                                  TradeRecord(log, [from |-> TxFrom(log.transactionHash)]))
              /\ log_pos' = log_pos + 1
              /\ UNCHANGED <<pc, attempt, fetch_errors>>
           \/ /\ amount_in(log) # ValueError
              /\ fetch_errors < MaxFetchErrors
              /\ fetch_errors' = fetch_errors + 1
              /\ attempt' = "failed"
              /\ pc' = "except"
              /\ UNCHANGED <<events, log_pos>>
    /\ UNCHANGED <<from_block, to_block, current_block, end_block, logs, chain,
                   latest, filter_params, processed, main_vars>>

\* lines 71-73: the sub-range is reported and the scan moves past it
Advance ==
    /\ pc = "for"
    /\ log_pos > Len(logs)
    /\ processed' = Append(processed, [first |-> current_block, last |-> end_block])
    /\ current_block' = end_block + 1
    /\ attempt' = "ok"
    /\ pc' = "while"
    /\ UNCHANGED <<from_block, to_block, end_block, logs, log_pos, events, chain,
                   latest, filter_params, fetch_errors, main_vars>>

\* an exception handler that gives the failed sub-range up
SkipFailedRange ==
    /\ pc = "except"
    /\ pc' = "while"
    /\ current_block' = end_block + 1
    /\ UNCHANGED <<from_block, to_block, end_block, logs, log_pos, events, chain,
                   latest, filter_params, attempt, processed, fetch_errors,
                   main_vars>>

\* lines 75-78: any Exception is reported and the loop continues
HandleException ==
    /\ pc = "except"
    /\ pc' = "while"
    /\ UNCHANGED <<scan_vars, main_vars>>

ScanNext ==
    \/ ResolveToBlock
    \/ WhileTest
    \/ GetLogs
    \/ ForBody
    \/ Advance
    \/ HandleException

ScanSpec == ScanInit /\ [][ScanNext]_vars

(***************************************************************************)
(* Properties of the scan.                                                 *)
(***************************************************************************)

\* the chain log a trade record was made from
LogOf(e) == CHOOSE l \in {chain[i] : i \in 1..Len(chain)} :
                l.blockNumber = e.block_number /\ l.logIndex = e.log_index

\* C1: when the scan returns, also after a sub-range attempt failed and was
\* retried, no two records of the returned list have the same
\* (tx_hash, log_index).
NoDuplicateRecords ==
    pc = "done" =>
        \A i, j \in 1..Len(events) :
            (events[i].tx_hash = events[j].tx_hash
             /\ events[i].log_index = events[j].log_index) => i = j

\* the successful sub-ranges tile [from_block, to_block] in ascending order
CoveredExactlyOnce ==
    /\ \A i \in 1..Len(processed) : processed[i].first <= processed[i].last
    /\ \A i \in 1..(Len(processed) - 1) :
           processed[i + 1].first = processed[i].last + 1
    /\ IF from_block <= to_block
       THEN /\ Len(processed) >= 1
            /\ processed[1].first = from_block
            /\ processed[Len(processed)].last = to_block
       ELSE processed = <<>>

\* a query past from_block follows the success of the sub-range before it
QueryFollowsSuccess ==
    GetLogs =>
        (Quantity(filter_params'.fromBlock) > from_block =>
            \E i \in 1..Len(processed) :
                processed[i].last = Quantity(filter_params'.fromBlock) - 1)

\* the query after a failed attempt asks for the same sub-range
RetrySameRange ==
    (GetLogs /\ attempt = "failed") =>
        /\ Quantity(filter_params'.fromBlock) = Quantity(filter_params.fromBlock)
        /\ Quantity(filter_params'.toBlock) = Quantity(filter_params.toBlock)

\* C2: no sub-range is skipped and sub-ranges are processed in ascending
\* order: a query from block b > from_block is issued only after the
\* sub-range ending at b - 1 succeeded, a failed attempt is followed by a
\* query for the same sub-range, and on return [from_block, to_block] is
\* covered by the successful sub-ranges without gap or overlap.
NoRangeSkipped ==
    /\ [](pc = "done" => CoveredExactlyOnce)
    /\ [][QueryFollowsSuccess /\ RetrySameRange]_vars

\* a scan of three sub-ranges returned after a failed attempt was retried
NoRangeSkippedWitness ==
    /\ pc = "done"
    /\ fetch_errors > 0
    /\ Len(processed) = MaxChunks + 1
    /\ events # <<>>

\* C6: every log query covers at most chunk_size blocks:
\* toBlock - fromBlock + 1 <= 5000.
QueryWithinChunkSize ==
    attempt # "none" =>
        Quantity(filter_params.toBlock) - Quantity(filter_params.fromBlock) + 1
            <= chunk_size

\* C7: no trade record is appended for a log whose payload is shorter than
\* 32 bytes ("0x" and 64 hex characters).
NoRecordFromShortPayload ==
    \A i \in 1..Len(events) : Len(LogOf(events[i]).data) >= 66

\* C10: a transient fetch failure never surfaces to the caller of
\* get_pool_events: the scan never raises.
ScanNeverRaises == pc # "raised"

(***************************************************************************)
(* calculate_volumes (lines 82-108).  A dict is the sequence of its        *)
(* entries in insertion order.                                             *)
(***************************************************************************)
collection_map ==
    (POOLS.YEETARD :> "YEETARD") @@ (POOLS.BULLA_1 :> "BULLA")
        @@ (POOLS.BULLA_2 :> "BULLA") @@ (POOLS.BULLA_3 :> "BULLA")
        @@ (POOLS.BABY_BERA :> "BABY_BERA")

KeyError == "KeyError"

\* the float literal 1e18
Float1e18 ==
    IntToFloat(PyIntBase16(<<"0", "x", "d", "e", "0", "b", "6", "b", "3", "a",
                             "7", "6", "4", "0", "0", "0", "0">>))

\* the index of the entry of key address, 0 when there is none
Position(data, address) ==
    IF \E k \in 1..Len(data) : data[k].address = address
    THEN CHOOSE k \in 1..Len(data) : data[k].address = address
    ELSE 0

\* lines 104-106: the three += on the entry of address
AddVolume(data, address, collection, volume, k) ==
    IF k = 0
    THEN Append(data, [address      |-> address,
                       total_volume |-> FAdd(FZero, volume),
                       collections  |-> (collection :> FAdd(FZero, volume)),
                       tx_count     |-> 1])
    ELSE [data EXCEPT ![k] =
            [address      |-> address,
             total_volume |-> FAdd(@.total_volume, volume),
             collections  |->
                 IF collection \in DOMAIN @.collections
                 THEN [@.collections EXCEPT ![collection] = FAdd(@, volume)]
                 ELSE @.collections @@ (collection :> FAdd(FZero, volume)),
             tx_count     |-> @.tx_count + 1]]

\* lines 99-106: one pass of the loop over all_events
AddEvent(data, event) ==
    AddVolume(data, Lower(event.address), collection_map[event.pool],
              FDiv(IntToFloat(event.amount_in), Float1e18),
              Position(data, Lower(event.address)))

RECURSIVE FoldEvents(_, _, _)
FoldEvents(evs, i, data) ==
    IF i > Len(evs) THEN data
    ELSE IF evs[i].pool \notin DOMAIN collection_map THEN KeyError
    ELSE FoldEvents(evs, i + 1, AddEvent(data, evs[i]))

calculate_volumes(evs) == FoldEvents(evs, 1, <<>>)

(***************************************************************************)
(* sum() over floats: added left to right from the int 0 (CPython up to    *)
(* 3.11), or with Neumaier's compensation (CPython 3.12 and later).        *)
(***************************************************************************)
RECURSIVE NaiveSum(_, _, _)
NaiveSum(xs, i, acc) ==
    IF i > Len(xs) THEN acc
    ELSE NaiveSum(xs, i + 1, FAdd(acc, xs[i]))

RECURSIVE NeumaierSum(_, _, _, _)
Compensated(xs, i, f_result, c, x, t) ==
    NeumaierSum(xs, i + 1, t,
                IF FAbsGeq(f_result, x)
                THEN FAdd(c, FAdd(FSub(f_result, t), x))
                ELSE FAdd(c, FAdd(FSub(x, t), f_result)))

NeumaierSum(xs, i, f_result, c) ==
    IF i > Len(xs)
    THEN IF c.m # <<>> THEN FAdd(f_result, c) ELSE f_result
    ELSE Compensated(xs, i, f_result, c, xs[i], FAdd(f_result, xs[i]))

PySum(xs) ==
    IF xs = <<>> THEN FZero
    ELSE IF sum_impl = "naive" THEN NaiveSum(xs, 1, FZero)
    ELSE NeumaierSum(xs, 2, FAdd(FZero, xs[1]), FZero)

(***************************************************************************)
(* distribute_by_collection (lines 110-138)                                *)
(***************************************************************************)
CollectionOrder == <<"YEETARD", "BULLA", "BABY_BERA">>

\* lines 119-122: the addresses of positive volume in a collection
collection_volumes(data, collection) ==
    LET held == SelectSeq(data, LAMBDA d :
                    /\ collection \in DOMAIN d.collections
                    /\ FPositive(d.collections[collection]))
    IN  [k \in 1..Len(held) |->
            [address |-> held[k].address, volume |-> held[k].collections[collection]]]

\* line 125
tokens_per_collection(total_tokens) ==
    FDiv(IntToFloat(NatBig(total_tokens)), IntToFloat(NatBig(3)))

\* line 136: distribution[address] += allocation, on a defaultdict(float)
AddAllocation(distribution, address, allocation) ==
    LET k == Position(distribution, address)
    IN  IF k = 0
        THEN Append(distribution,
                    [address |-> address, allocation |-> FAdd(FZero, allocation)])
        ELSE [distribution EXCEPT ![k].allocation = FAdd(@, allocation)]

\* lines 134-136, from the i-th address of the collection on
RECURSIVE AllocateWithin(_, _, _, _, _)
AllocateWithin(addresses, i, total_collection_volume, share, distribution) ==
    IF i > Len(addresses) THEN distribution
    ELSE LET allocation == FMul(FDiv(addresses[i].volume, total_collection_volume),
                                share)
         IN  AllocateWithin(addresses, i + 1, total_collection_volume, share,
                            AddAllocation(distribution, addresses[i].address,
                                          allocation))

\* lines 131-136: one collection
AllocateCollection(addresses, total_collection_volume, share, distribution) ==
    IF FPositive(total_collection_volume)
    THEN AllocateWithin(addresses, 1, total_collection_volume, share, distribution)
    ELSE distribution

\* the values of a collection's dict
Volumes(addresses) == [k \in 1..Len(addresses) |-> addresses[k].volume]

\* lines 130-136, from the i-th collection on
RECURSIVE AllocateCollections(_, _, _, _)
AllocateCollections(data, i, share, distribution) ==
    IF i > Len(CollectionOrder) THEN distribution
    ELSE AllocateCollections(data, i + 1, share,
             AllocateCollection(collection_volumes(data, CollectionOrder[i]),
                                PySum(Volumes(collection_volumes(data, CollectionOrder[i]))),
                                share, distribution))

distribute_by_collection(data, total_tokens) ==
    AllocateCollections(data, 1, tokens_per_collection(total_tokens), <<>>)

(***************************************************************************)
(* distribute_by_total_volume (lines 140-151)                              *)
(***************************************************************************)
\* lines 144-149
AllocateByTotal(data, total_tokens, total_volume) ==
    [k \in 1..Len(data) |->
        [address    |-> data[k].address,
         allocation |->
             IF FPositive(total_volume)
             THEN FMul(FDiv(data[k].total_volume, total_volume),
                       IntToFloat(NatBig(total_tokens)))
             ELSE FZero]]

distribute_by_total_volume(data, total_tokens) ==
    AllocateByTotal(data, total_tokens,
                    PySum([k \in 1..Len(data) |-> data[k].total_volume]))

(***************************************************************************)
(* main (lines 169-200): aggregation, the two distributions, the ranking.  *)
(***************************************************************************)
MaxEvents == 2

\* dict.get(address, 0) on a distribution
Get(distribution, address) ==
    IF Position(distribution, address) = 0 THEN FZero
    ELSE distribution[Position(distribution, address)].allocation

\* lines 186-194: one result per key of address_data, in its order
Results(data, distribution) ==
    [k \in 1..Len(data) |->
        [address    |-> data[k].address,
         allocation |-> Get(distribution, data[k].address)]]

\* sorted(..., key = allocation, reverse = True): stable, so an item goes
\* behind every item already placed whose allocation is not smaller
RECURSIVE SortedDescending(_, _, _)
SortedDescending(items, i, placed) ==
    IF i > Len(items) THEN placed
    ELSE LET ahead == Cardinality({k \in 1..Len(placed) :
                          ~FLess(placed[k].allocation, items[i].allocation)})
         IN  SortedDescending(items, i + 1,
                              SubSeq(placed, 1, ahead) \o <<items[i]>>
                                  \o SubSeq(placed, ahead + 1, Len(placed)))

\* wei amounts of the trades: 0, 10^17 and 2 * 10^17
Amounts == {<<>>, PyIntBase16(<<"0", "x">> \o Wei1), PyIntBase16(<<"0", "x">> \o Wei2)}

\* the trade records main collects from the pools
MainEvents ==
    {[pool         |-> p,
      tx_hash      |-> PyHex(1),
      block_number |-> 1,
      address      |-> a,
      amount_in    |-> w,
      log_index    |-> 0] :
     p \in {POOLS.YEETARD, POOLS.BULLA_2}, a \in {Trader1, Trader2, Trader3},
     w \in Amounts}

MainInit ==
    /\ pc = "calculate_volumes"
    /\ all_events \in UNION {[1..n -> MainEvents] : n \in 0..MaxEvents}
    /\ shuffled = all_events
    /\ sum_impl \in {"naive", "neumaier"}
    /\ NothingComputed
    /\ NoScan

\* line 171, and the same call on the shuffled events; an unconfigured
\* pool raises KeyError at line 102
CalculateVolumes ==
    /\ pc = "calculate_volumes"
    /\ address_data' = calculate_volumes(all_events)
    /\ shuffled_data' = calculate_volumes(shuffled)
    /\ pc' = IF address_data' = KeyError THEN "raised" ELSE "distribute_by_collection"
    /\ UNCHANGED <<scan_vars, all_events, shuffled, collection_distribution,
                   volume_distribution, sorted_collection, sorted_volume, sum_impl>>

\* line 177
DistributeByCollection ==
    /\ pc = "distribute_by_collection"
    /\ collection_distribution' = distribute_by_collection(address_data, TOTAL_BERA_TOKENS)
    /\ pc' = "distribute_by_total_volume"
    /\ UNCHANGED <<scan_vars, all_events, shuffled, address_data, shuffled_data,
                   volume_distribution, sorted_collection, sorted_volume, sum_impl>>

\* line 180
DistributeByTotalVolume ==
    /\ pc = "distribute_by_total_volume"
    /\ volume_distribution' = distribute_by_total_volume(address_data, TOTAL_BERA_TOKENS)
    /\ pc' = "rank"
    /\ UNCHANGED <<scan_vars, all_events, shuffled, address_data, shuffled_data,
                   collection_distribution, sorted_collection, sorted_volume,
                   sum_impl>>

\* lines 183-200
Rank ==
    /\ pc = "rank"
    /\ sorted_collection' =
           SortedDescending(Results(address_data, collection_distribution), 1, <<>>)
    /\ sorted_volume' =
           SortedDescending(Results(address_data, volume_distribution), 1, <<>>)
    /\ pc' = "ranked"
    /\ UNCHANGED <<scan_vars, all_events, shuffled, address_data, shuffled_data,
                   collection_distribution, volume_distribution, sum_impl>>

MainNext ==
    \/ CalculateVolumes
    \/ DistributeByCollection
    \/ DistributeByTotalVolume
    \/ Rank

MainSpec == MainInit /\ [][MainNext]_vars

(***************************************************************************)
(* calculate_volumes on its own: a sequence of trade records and one of    *)
(* its permutations.                                                       *)
(***************************************************************************)
MaxShuffle == 3

\* a pool address that is not configured
UnknownPool == "0x0000000000000000000000000000000000000000"

FoldRecord(p, a, w) ==
    [pool         |-> p,
     tx_hash      |-> PyHex(1),
     block_number |-> 1,
     address      |-> a,
     amount_in    |-> PyIntBase16(<<"0", "x">> \o w),
     log_index    |-> 0]

FoldRecords ==
    {FoldRecord(POOLS.YEETARD, Trader1, Wei1),
     FoldRecord(POOLS.YEETARD, Trader2, Wei2),
     FoldRecord(POOLS.BULLA_3, Trader1, Wei3),
     FoldRecord(POOLS.BULLA_1, Trader3, Wei1),
     FoldRecord(UnknownPool, Trader3, Wei1)}

Shuffles(evs) ==
    {[i \in 1..Len(evs) |-> evs[p[i]]] : p \in Permutations(1..Len(evs))}

FoldInit ==
    /\ pc = "calculate_volumes"
    /\ all_events \in UNION {[1..n -> FoldRecords] : n \in 0..MaxShuffle}
    /\ shuffled \in Shuffles(all_events)
    /\ sum_impl = "naive"
    /\ NothingComputed
    /\ NoScan

\* the same records, the order left as it is
VolumeInit ==
    /\ FoldInit
    /\ shuffled = all_events

VolumeNext == CalculateVolumes

VolumeSpec == VolumeInit /\ [][VolumeNext]_vars

FoldNext == CalculateVolumes

FoldSpec == FoldInit /\ [][FoldNext]_vars

(***************************************************************************)
(* Properties of the aggregation, the distributions and the ranking.       *)
(***************************************************************************)

\* a float as the exact number m * 2^e it stands for, and exact sums
ExactAdd(x, y) ==
    [s |-> 0, m |-> BAdd(Aligned(x, y).a, Aligned(x, y).b), e |-> Aligned(x, y).e]

ExactEq(x, y) == Aligned(x, y).a = Aligned(x, y).b

RECURSIVE ExactSum(_, _, _)
ExactSum(xs, i, acc) ==
    IF i > Len(xs) THEN acc ELSE ExactSum(xs, i + 1, ExactAdd(acc, xs[i]))

Allocations(distribution) ==
    [k \in 1..Len(distribution) |-> distribution[k].allocation]

\* the collections in which some address has traded a positive volume
TradedCollections ==
    {c \in {CollectionOrder[i] : i \in 1..Len(CollectionOrder)} :
        \E k \in 1..Len(address_data) :
            /\ c \in DOMAIN address_data[k].collections
            /\ FPositive(address_data[k].collections[c])}

\* C3: the by-collection allocations add up to exactly T minus T/3 for each
\* collection of zero volume: three times their sum is T times the number
\* of collections with a positive volume.
CollectionSharesSumExactly ==
    pc \in {"distribute_by_total_volume", "rank", "ranked"} =>
        ExactEq([s |-> 0,
                 m |-> MulSmall(ExactSum(Allocations(collection_distribution),
                                         1, FZero).m, 3),
                 e |-> ExactSum(Allocations(collection_distribution), 1, FZero).e],
                [s |-> 0,
                 m |-> NatBig(TOTAL_BERA_TOKENS * Cardinality(TradedCollections)),
                 e |-> 0])

\* C4: the by-total-volume allocations add up to exactly T when the total
\* volume is positive, and are all 0 when the total volume is 0.
TotalVolumeSharesSumExactly ==
    pc \in {"rank", "ranked"} =>
        IF \E k \in 1..Len(address_data) : FPositive(address_data[k].total_volume)
        THEN ExactEq(ExactSum(Allocations(volume_distribution), 1, FZero),
                     [s |-> 0, m |-> NatBig(TOTAL_BERA_TOKENS), e |-> 0])
        ELSE \A k \in 1..Len(volume_distribution) :
                 volume_distribution[k].allocation = FZero

\* s before t in code point order
StrLess(s, t) ==
    \/ /\ Len(s) < Len(t)
       /\ \A i \in 1..Len(s) : s[i] = t[i]
    \/ \E i \in 1..Min(Len(s), Len(t)) :
           /\ CharRank(s[i]) < CharRank(t[i])
           /\ \A k \in 1..(i - 1) : s[k] = t[k]

RankedList(ranked) ==
    \A i, j \in 1..Len(ranked) :
        i < j => /\ ~FLess(ranked[i].allocation, ranked[j].allocation)
                 /\ ranked[i].allocation = ranked[j].allocation
                        => StrLess(ranked[i].address, ranked[j].address)

\* C5: both ranked lists are ordered by allocation descending, entries of
\* equal allocation by address ascending.
RankedByAllocationThenAddress ==
    pc = "ranked" => RankedList(sorted_collection) /\ RankedList(sorted_volume)

\* the entries of a dict, whatever their order
Entries(data) == IF data = KeyError THEN {KeyError} ELSE {data[k] : k \in 1..Len(data)}

\* C8: calculate_volumes gives, for a non-empty sequence and any permutation
\* of it, the same addresses and for each address the same total_volume,
\* per-collection volumes and tx_count.
PermutationInvariant ==
    (pc # "calculate_volumes" /\ all_events # <<>>) =>
        Entries(address_data) = Entries(shuffled_data)

\* addresses equal up to letter case
SameAddress(a, b) ==
    /\ Len(a) = Len(b)
    /\ \A i \in 1..Len(a) : LowerChar(a[i]) = LowerChar(b[i])

RECURSIVE TxCountFrom(_, _)
TxCountFrom(data, k) ==
    IF k > Len(data) THEN 0 ELSE data[k].tx_count + TxCountFrom(data, k + 1)

\* C9: after calculate_volumes over events of configured pools, every
\* event's address has exactly one entry, addresses that differ only in
\* letter case share it, an entry's tx_count is the number of events of its
\* address, and the tx_counts add up to the number of events.
OneEntryPerAddress ==
    pc = "distribute_by_collection" =>
        /\ \A i \in 1..Len(all_events) :
               Cardinality({k \in 1..Len(address_data) :
                   SameAddress(address_data[k].address, all_events[i].address)}) = 1
        /\ \A k \in 1..Len(address_data) :
               address_data[k].tx_count =
                   Cardinality({i \in 1..Len(all_events) :
                       SameAddress(all_events[i].address, address_data[k].address)})
        /\ TxCountFrom(address_data, 1) = Len(all_events)

\* two events whose addresses differ only in case were folded into one
\* entry, beside the entry of another address
OneEntryPerAddressWitness ==
    /\ pc = "distribute_by_collection"
    /\ Len(address_data) = 2
    /\ \E i, j \in 1..Len(all_events) :
           /\ all_events[i].address # all_events[j].address
           /\ SameAddress(all_events[i].address, all_events[j].address)
    /\ \E k \in 1..Len(address_data) : address_data[k].tx_count = 2

====
